---- MODULE Spec2Model ----
(***************************************************************************)
(* Model of resampling.py: the jackknife, bootstrap and subsampling        *)
(* estimators and the subset-mean evaluator they share.                    *)
(*                                                                         *)
(* Numbers are exact rationals <<num, den>> in lowest terms with den > 0;  *)
(* <<0, 0>> is NaN (numpy's mean of an empty selection, and everything     *)
(* computed from it).  The returned error is kept as its square, so that   *)
(* math.sqrt(c) * numpy.std(v) is the rational c * Var(v).                 *)
(*                                                                         *)
(* An array is its row-major flat data `a` together with its shape         *)
(* <<R, C>>; a one-dimensional array of N values is the shape <<N, 1>>.    *)
(* Index subsets hold 0-based positions as in the source.                  *)
(***************************************************************************)
EXTENDS Integers, Sequences, FiniteSets

\* ------------------------------------------------------------------ bounds
\* largest measurement value in a generated array
MaxVal == 2
\* largest element count of an array passed to jackknife
MaxSize == 4
\* largest element count of an array passed to bootstrap
MaxBootstrapSize == 2
\* largest element count of an array passed to subsampling
MaxSubsampleSize == 3
\* largest `iterations` argument
MaxIter == 2

\* ------------------------------------------------------- exact arithmetic
Abs(x) == IF x < 0 THEN -x ELSE x

RECURSIVE Gcd(_, _)
Gcd(x, y) == IF y = 0 THEN x ELSE Gcd(y, x % y)

NaN == <<0, 0>>

IsNaN(q) == q[2] = 0

\* the float p / q; a zero divisor gives NaN (numpy's 0/0 of an empty mean)
R(p, q) ==
    IF q = 0 THEN NaN
    ELSE LET g == Gcd(Abs(p), Abs(q))
             s == IF q < 0 THEN -1 ELSE 1
         IN  <<(s * p) \div g, (s * q) \div g>>

RInt(k) == <<k, 1>>

RAdd(x, y) == IF IsNaN(x) \/ IsNaN(y) THEN NaN
              ELSE R(x[1] * y[2] + y[1] * x[2], x[2] * y[2])

RSub(x, y) == IF IsNaN(x) \/ IsNaN(y) THEN NaN
              ELSE R(x[1] * y[2] - y[1] * x[2], x[2] * y[2])

RMul(x, y) == IF IsNaN(x) \/ IsNaN(y) THEN NaN
              ELSE R(x[1] * y[1], x[2] * y[2])

RECURSIVE RSum(_)
RSum(s) == IF s = <<>> THEN RInt(0) ELSE RAdd(s[1], RSum(Tail(s)))

RECURSIVE RProd(_)
RProd(s) == IF s = <<>> THEN RInt(1) ELSE RMul(s[1], RProd(Tail(s)))

\* numpy.mean of a sequence of values: sum / count, NaN when empty
MeanDivN1(s) ==
    LET t == RSum(s)
    IN  IF s = <<>> \/ IsNaN(t) THEN NaN ELSE R(t[1], t[2] * (Len(s) + 1))

Mean(s) ==
    LET t == RSum(s)
    IN  IF s = <<>> \/ IsNaN(t) THEN NaN ELSE R(t[1], t[2] * Len(s))

\* numpy.std squared: the population variance mean(|x - mean(x)|^2)
VarSample(s) ==
    IF Len(s) < 2 THEN NaN
    ELSE LET m == Mean(s)
             d == [k \in 1..Len(s) |-> RMul(RSub(s[k], m), RSub(s[k], m))]
             t == RSum(d)
         IN  IF IsNaN(t) THEN NaN ELSE R(t[1], t[2] * (Len(s) - 1))

Var(s) ==
    LET m == Mean(s)
        d == [k \in 1..Len(s) |-> RMul(RSub(s[k], m), RSub(s[k], m))]
    IN  Mean(d)

\* ------------------------------------------------------------ the inputs
None == <<>>

\* Python's range(lo, hi) as a sequence
Range(lo, hi) == [k \in 1..(IF hi > lo THEN hi - lo ELSE 0) |-> lo + k - 1]

SeqsOfLen(S, L) == [1..L -> S]

Shapes(size) == {sh \in (1..size) \X (1..size) : sh[1] * sh[2] = size}

\* the array of the docstring examples
DocArray == <<1, 2, 3, 4, 5>>

JackArrays == UNION {SeqsOfLen(1..MaxVal, L) : L \in 1..MaxSize} \cup {DocArray}

\* the arrays <<1>>, <<1, 2>>, <<1, 2, 3>>, ...
Ramps(maxsize) == {Range(1, L + 1) : L \in 1..maxsize}

BootstrapArrays == Ramps(MaxBootstrapSize)

SubsampleArrays == Ramps(MaxSubsampleSize)

Funcs == {"identity", "square", "product"}

\* identity and lambda x: x**2 take one argument, lambda *x: prod(x) any
ArityOk(func, k) == func = "product" \/ k = 1

ApplyFunc(func, args) ==
    CASE func = "identity" -> args[1]
      [] func = "square"   -> RMul(args[1], args[1])
      [] func = "product"  -> RProd(args)

\* ------------------------------------------------- subset-mean evaluator
\* __number_measurements
NumberMeasurementsLeading(arr, shp, axis) ==
    IF axis = None THEN shp[1] ELSE Len(arr) \div shp[axis[1] + 1]

NumberMeasurements(arr, shp, axis) ==
    IF axis = None THEN Len(arr) ELSE Len(arr) \div shp[axis[1] + 1]

\* numpy.reshape(numpy.take(arr, [j], axis=ax), -1) on row-major data:
\* ax = 0 is row j, ax = 1 is column j
TakeRowOnly(arr, shp, ax, j) ==
    [k \in 1..(Len(arr) \div shp[ax + 1]) |-> arr[j * (Len(arr) \div shp[ax + 1]) + k]]

Take(arr, shp, ax, j) ==
    IF ax = 0 THEN [c \in 1..shp[2] |-> arr[j * shp[2] + c]]
              ELSE [r \in 1..shp[1] |-> arr[(r - 1) * shp[2] + j + 1]]

\* the sequence the index subset selects from, per entry of the tuple
Selected(arr, shp, axis) ==
    IF axis = None THEN <<arr>>
    ELSE [j \in 1..shp[axis[1] + 1] |-> Take(arr, shp, axis[1], j - 1)]

\* numpy raises IndexError for an index outside the selected sequence
IndexOk(arr, shp, idx, axis) ==
    LET sel == Selected(arr, shp, axis)
    IN  \A s \in 1..Len(sel) :
            \A k \in 1..Len(idx) : idx[k] >= 0 /\ idx[k] < Len(sel[s])

\* __array_mean_indices
ArrayMeanIndices(arr, shp, idx, axis) ==
    LET sel == Selected(arr, shp, axis)
    IN  [s \in 1..Len(sel) |->
            Mean([k \in 1..Len(idx) |-> RInt(sel[s][idx[k] + 1])])]

\* --------------------------------------------------- index-subset rules
\* jackknife: range(0, i) + range(i + 1, n)
LeaveOutNone(pos, cnt) == Range(0, pos) \o Range(pos, cnt)

LeaveOut(pos, cnt) == Range(0, pos) \o Range(pos + 1, cnt)

\* bootstrap: numpy.random.randint(0, high=n, size=n)
RandintInclusive(cnt) == [1..cnt -> 0..cnt]

Randint(cnt) == [1..cnt -> 0..(cnt - 1)]

\* subsampling: numpy.random.permutation(range(n))
Permutation(cnt) ==
    {p \in [1..cnt -> 0..(cnt - 1)] : \A x, y \in 1..cnt : p[x] = p[y] => x = y}

\* Python's p[0:k] for k >= 0: the slice is clipped to the sequence
PrefixOneMore(p, k) == SubSeq(p, 1, IF k + 1 < Len(p) THEN k + 1 ELSE Len(p))

Prefix(p, k) == SubSeq(p, 1, IF k < Len(p) THEN k ELSE Len(p))

\* ------------------------------------------------------------- the state
VARIABLES
    pc,          \* "idle", the estimator whose loop runs, "returned", "raised"
    estimator,   \* the estimator called ("none" before the call)
    a,           \* the flat data of the array
    shape,       \* its shape <<R, C>>
    func,        \* the user function
    func_axis,   \* None or <<axis>>
    iterations,  \* bootstrap / subsampling argument
    samples,     \* subsampling argument
    n,           \* the number of measurements
    i,           \* completed evaluations of the list comprehension
    indices,     \* the index subset of the latest evaluation
    means,       \* the tuple passed to func in the latest evaluation
    values,      \* the resample values collected so far
    calls,       \* invocations of func
    result,      \* None or <<mean, error squared>>
    error        \* the exception raised ("none" while there is none)

vars == <<pc, estimator, a, shape, func, func_axis, iterations, samples, n, i,
          indices, means, values, calls, result, error>>

args == <<a, shape, func, func_axis, iterations, samples, n, estimator>>

Init ==
    /\ pc = "idle"
    /\ estimator = "none"
    /\ a = <<>>
    /\ shape = <<0, 0>>
    /\ func = "identity"
    /\ func_axis = None
    /\ iterations = 0
    /\ samples = 0
    /\ n = 0
    /\ i = 0
    /\ indices = <<>>
    /\ means = <<>>
    /\ values = <<>>
    /\ calls = 0
    /\ result = None
    /\ error = "none"

\* entry of an estimator: bind the arguments and compute n
Enter(est, arr, shp, f, axis, iters, smpl) ==
    /\ pc' = est
    /\ estimator' = est
    /\ a' = arr
    /\ shape' = shp
    /\ func' = f
    /\ func_axis' = axis
    /\ iterations' = iters
    /\ samples' = smpl
    /\ n' = NumberMeasurements(arr, shp, axis)
    /\ UNCHANGED <<i, indices, means, values, calls, result, error>>

\* one evaluation func(*(__array_mean_indices(a, idx, func_axis)))
Evaluate(idx) ==
    /\ indices' = idx
    /\ IF ~IndexOk(a, shape, idx, func_axis)
       THEN /\ pc' = "raised"
            /\ error' = "IndexError"
            /\ UNCHANGED <<means, values, calls, i>>
       ELSE /\ means' = ArrayMeanIndices(a, shape, idx, func_axis)
            /\ IF ~ArityOk(func, Len(means'))
               THEN /\ pc' = "raised"
                    /\ error' = "TypeError"
                    /\ UNCHANGED <<values, calls, i>>
               ELSE /\ values' = Append(values, ApplyFunc(func, means'))
                    /\ calls' = calls + 1
                    /\ i' = i + 1
                    /\ UNCHANGED <<pc, error>>
    /\ UNCHANGED <<args, result>>

Return(factor) ==
    /\ pc' = "returned"
    /\ result' = <<Mean(values), RMul(factor, Var(values))>>
    /\ UNCHANGED <<args, i, indices, means, values, calls, error>>

Raise(exc) ==
    /\ pc' = "raised"
    /\ error' = exc
    /\ UNCHANGED <<args, i, indices, means, values, calls, result>>

\* ------------------------------------------------------------- jackknife
CallJackknife ==
    /\ pc = "idle"
    /\ \E arr \in JackArrays : \E shp \in Shapes(Len(arr)) :
       \E f \in Funcs : \E axis \in {None, <<0>>, <<1>>} :
           Enter("jackknife", arr, shp, f, axis, 0, 0)

JackknifeStep ==
    /\ pc = "jackknife"
    /\ i < n
    /\ Evaluate(LeaveOut(i, n))

\* math.sqrt(n - 1) * numpy.std(jackknife_values)
JackknifeReturn ==
    /\ pc = "jackknife"
    /\ i = n
    /\ Return(RInt(n - 1))

\* ------------------------------------------------------------- bootstrap
CallBootstrap ==
    /\ pc = "idle"
    /\ \E arr \in BootstrapArrays : \E shp \in Shapes(Len(arr)) :
       \E f \in Funcs : \E axis \in {None, <<0>>, <<1>>} :
       \E iters \in 0..MaxIter :
           Enter("bootstrap", arr, shp, f, axis, iters, 0)

BootstrapStep ==
    /\ pc = "bootstrap"
    /\ i < iterations
    /\ \E idx \in Randint(n) : Evaluate(idx)

\* math.sqrt(float(iterations)/float(iterations - 1)) * numpy.std(...)
BootstrapReturn ==
    /\ pc = "bootstrap"
    /\ i = iterations
    /\ IF iterations - 1 = 0
       THEN Raise("ZeroDivisionError")
       ELSE Return(R(iterations, iterations - 1))

\* ----------------------------------------------------------- subsampling
CallSubsampling ==
    /\ pc = "idle"
    /\ \E arr \in SubsampleArrays : \E shp \in Shapes(Len(arr)) :
       \E f \in Funcs : \E axis \in {None, <<0>>, <<1>>} :
       \E iters \in 0..MaxIter :
       \E smpl \in 0..(NumberMeasurements(arr, shp, axis) + 1) :
           Enter("subsampling", arr, shp, f, axis, iters, smpl)

SubsamplingStep ==
    /\ pc = "subsampling"
    /\ i < iterations
    /\ \E p \in Permutation(n) : Evaluate(Prefix(p, samples))

\* math.sqrt(float(samples)/float(iterations*(iterations - 1))) * numpy.std(...)
SubsamplingReturn ==
    /\ pc = "subsampling"
    /\ i = iterations
    /\ IF iterations * (iterations - 1) = 0
       THEN Raise("ZeroDivisionError")
       ELSE Return(R(samples, iterations * (iterations - 1)))

Next ==
    \/ CallJackknife
    \/ JackknifeStep
    \/ JackknifeReturn
    \/ CallBootstrap
    \/ BootstrapStep
    \/ BootstrapReturn
    \/ CallSubsampling
    \/ SubsamplingStep
    \/ SubsamplingReturn

Spec == Init /\ [][Next]_vars

\* ------------------------------------------------- vocabulary of the claims
RECURSIVE ISum(_)
ISum(s) == IF s = <<>> THEN 0 ELSE s[1] + ISum(Tail(s))

\* the element of the two-dimensional array at row r, column c (0-based)
Elem(r, c) == a[r * shape[2] + c + 1]

\* size of the function axis, 1 when there is none
K == IF func_axis = None THEN 1 ELSE shape[func_axis[1] + 1]

\* measurement m (0-based) of entry j (0-based) of the function axis
Measurement(j, m) ==
    IF func_axis = None THEN a[m + 1]
    ELSE IF func_axis[1] = 0 THEN Elem(j, m) ELSE Elem(m, j)

IndexSet(idx) == {idx[k] : k \in 1..Len(idx)}

Finished == pc \in {"returned", "raised"}

\* at least one evaluation of the comprehension has completed
Evaluated == i >= 1

\* sum of the measurements of entry j at the positions of idx
SumAt(j, idx) == ISum([k \in 1..Len(idx) |-> Measurement(j, idx[k])])

\* sum of all n measurements of entry j but the one at position skip
SumAllBut(j, skip) ==
    ISum([m \in 1..n |-> IF m - 1 = skip THEN 0 ELSE Measurement(j, m - 1)])

\* C1: jackknife with N >= 2 measurements evaluates the function once per
\* leave-out position 0, 1, .., N-1 in this order; the subset of the i-th
\* evaluation is 0..N-1 without i, each position once; the function gets
\* the mean of the measurements at these positions; N values are returned.
JackknifeLeaveOneOut ==
    (estimator = "jackknife" /\ n >= 2 /\ error # "TypeError") =>
        /\ error = "none"
        /\ i <= n
        /\ calls = i
        /\ Len(values) = i
        /\ Evaluated =>
            /\ Len(indices) = n - 1
            /\ IndexSet(indices) = (0..(n - 1)) \ {i - 1}
            /\ \A k \in 1..(Len(indices) - 1) : indices[k] < indices[k + 1]
            /\ Len(means) = K
            /\ \A j \in 1..K : means[j] = R(SumAt(j - 1, indices), n - 1)
            /\ values[i] = ApplyFunc(func, means)
        /\ pc = "returned" => i = n

JackknifeLeaveOneOutReached ==
    /\ estimator = "jackknife"
    /\ pc = "returned"
    /\ n = 4
    /\ indices = <<0, 1, 2>>
    /\ calls = 4

\* C2: jackknife returns the arithmetic mean of its N resample values and
\* an error with N * error^2 = (N-1) * sum (v_i - mean)^2; with the identity
\* the mean is the plain mean of the data and
\* error^2 = sum (x_i - xbar)^2 / (N (N-1)); [1,2,3,4,5] gives mean 3 and
\* error^2 = 1/2, and with x -> x^2 the mean 9.125.
JackknifeMeanError ==
    (estimator = "jackknife" /\ pc = "returned" /\ n >= 2) =>
        LET mean  == result[1]
            errsq == result[2]
            dev   == [k \in 1..n |-> RMul(RSub(values[k], mean), RSub(values[k], mean))]
            S     == ISum(a)
            Q     == ISum([k \in 1..Len(a) |-> a[k] * a[k]])
        IN  /\ RMul(RInt(n), mean) = RSum(values)
            /\ RMul(RInt(n), errsq) = RMul(RInt(n - 1), RSum(dev))
            /\ (func = "identity" /\ func_axis = None) =>
                   /\ mean = R(S, n)
                   /\ errsq = R(n * Q - S * S, n * n * (n - 1))
            /\ (a = DocArray /\ func = "identity" /\ func_axis = None) =>
                   /\ mean = <<3, 1>>
                   /\ errsq = <<1, 2>>
            /\ (a = DocArray /\ func = "square" /\ func_axis = None) =>
                   mean = <<73, 8>>

JackknifeMeanErrorReached ==
    /\ estimator = "jackknife"
    /\ pc = "returned"
    /\ a = DocArray
    /\ func = "square"
    /\ func_axis = None
    /\ result[1] = <<73, 8>>

\* C3: bootstrap performs exactly `iterations` evaluations; the index subset
\* of each has length N with every index in [0, N); the function is applied
\* once per subset to the mean over it; a result is returned from exactly
\* `iterations` resample values.
BootstrapSteps ==
    estimator = "bootstrap" =>
        /\ error # "IndexError"
        /\ i <= iterations
        /\ calls = i
        /\ Len(values) = i
        /\ (Evaluated \/ error = "TypeError") =>
            /\ Len(indices) = n
            /\ \A k \in 1..Len(indices) : indices[k] \in 0..(n - 1)
        /\ Evaluated =>
            /\ \A j \in 1..K : means[j] = R(SumAt(j - 1, indices), n)
            /\ values[i] = ApplyFunc(func, means)
        /\ (Finished /\ error # "TypeError") => calls = iterations
        /\ pc = "returned" =>
            /\ Len(values) = iterations
            /\ iterations >= 2 =>
                   RMul(RInt(iterations), result[1]) = RSum(values)

BootstrapStepsReached ==
    /\ estimator = "bootstrap"
    /\ pc = "returned"
    /\ iterations = 2
    /\ n = 2
    /\ indices = <<1, 1>>
    /\ values = <<<<3, 2>>, <<2, 1>>>>

\* C4: subsampling with 1 <= samples <= N uses in every evaluation an index
\* subset of exactly `samples` pairwise distinct indices in [0, N); when
\* samples = N the subset is a permutation of 0..N-1, nothing is raised and
\* every resample value is the function of the mean of all N measurements.
SubsamplingSubsets ==
    (estimator = "subsampling" /\ samples >= 1 /\ samples <= n) =>
        /\ (Evaluated \/ error = "TypeError") =>
            /\ Len(indices) = samples
            /\ Cardinality(IndexSet(indices)) = samples
            /\ IndexSet(indices) \subseteq 0..(n - 1)
        /\ samples = n =>
            /\ Evaluated =>
                /\ IndexSet(indices) = 0..(n - 1)
                /\ \A k \in 1..i :
                       values[k] = ApplyFunc(func,
                           [j \in 1..K |-> R(SumAllBut(j - 1, n), n)])
            /\ (iterations >= 2 /\ ArityOk(func, K)) => pc # "raised"
            /\ (iterations >= 2 /\ ArityOk(func, K) /\ Finished) =>
                   Len(values) = iterations

SubsamplingSubsetsReached ==
    /\ estimator = "subsampling"
    /\ pc = "returned"
    /\ samples = 3
    /\ n = 3
    /\ indices = <<2, 0, 1>>

\* C5: with a function axis of size K the measurement count is the element
\* count divided by K, and every evaluation passes the function K means,
\* the j-th being the mean over the index subset within the slice that
\* fixes the function axis to j (a slice of N elements, so every index of
\* the subset is valid); without a function axis one mean is passed.
FunctionAxisMeans ==
    estimator # "none" =>
        /\ error # "IndexError"
        /\ func_axis # None =>
            /\ n * K = shape[1] * shape[2]
            /\ n = IF func_axis[1] = 0 THEN shape[2] ELSE shape[1]
        /\ (Evaluated \/ error = "TypeError") =>
            /\ Len(means) = K
            /\ \A k \in 1..Len(indices) : indices[k] \in 0..(n - 1)
            /\ \A j \in 1..K :
                   means[j] = R(SumAt(j - 1, indices), Len(indices))
        /\ Evaluated => values[i] = ApplyFunc(func, means)

FunctionAxisMeansReached ==
    /\ estimator = "jackknife"
    /\ pc = "returned"
    /\ shape = <<2, 2>>
    /\ func_axis = <<1>>
    /\ func = "product"
    /\ a = <<1, 2, 1, 1>>
    /\ means = <<<<1, 1>>, <<2, 1>>>>

\* C6: jackknife with N = 2 returns a result without raising; with N = 1
\* it raises, returns nothing and never evaluates the function on the mean
\* of an empty subset.
JackknifeNeedsTwo ==
    (estimator = "jackknife" /\ Finished) =>
        /\ (n = 2 /\ ArityOk(func, K)) => (pc = "returned" /\ result # None)
        /\ n = 1 =>
            /\ pc = "raised"
            /\ result = None
            /\ calls = 0

\* C7: bootstrap and subsampling with iterations < 2 raise and never return
\* a (mean, error) pair.
IterationsBelowTwoRaise ==
    (estimator \in {"bootstrap", "subsampling"} /\ iterations < 2 /\ Finished) =>
        /\ pc = "raised"
        /\ result = None

\* C8: subsampling with samples outside [1, N] raises and returns nothing;
\* it neither proceeds with a subset of N entries nor evaluates the
\* function on the mean of an empty subset (stated for iterations >= 2,
\* where `samples` is the only argument out of range).
SamplesOutOfRangeRaise ==
    (/\ estimator = "subsampling"
     /\ samples < 1 \/ samples > n
     /\ iterations >= 2
     /\ Finished) =>
        /\ pc = "raised"
        /\ result = None
        /\ calls = 0

MeasurementsAreLeadingDimension ==
    (estimator # "none" /\ func_axis = None) =>
        /\ n = shape[1]
        /\ (estimator = "jackknife" /\ pc = "returned") => Len(values) = shape[1]
        /\ (estimator = "bootstrap" /\ Evaluated) =>
            /\ Len(indices) = shape[1]
            /\ \A k \in 1..Len(indices) : indices[k] \in 0..(shape[1] - 1)

\* C10 as amended: without a function axis the measurement count is the
\* total element count: jackknife on an N x K array gives N*K resample
\* values and bootstrap draws subsets of length N*K over [0, N*K).
MeasurementsAreAllElements ==
    (estimator # "none" /\ func_axis = None) =>
        /\ n = shape[1] * shape[2]
        /\ (estimator = "jackknife" /\ pc = "returned") =>
               Len(values) = shape[1] * shape[2]
        /\ (estimator = "bootstrap" /\ Evaluated) =>
            /\ Len(indices) = shape[1] * shape[2]
            /\ \A k \in 1..Len(indices) :
                   indices[k] \in 0..(shape[1] * shape[2] - 1)

MeasurementsAreAllElementsReached ==
    /\ estimator = "jackknife"
    /\ pc = "returned"
    /\ func_axis = None
    /\ shape = <<2, 2>>
    /\ Len(values) = 4

====
